---- MODULE Spec2Model ----
(***************************************************************************)
(* State-machine model of schtk.py: the job table (sqlite), the            *)
(* APScheduler trigger registry, the Tk handlers that create, edit,        *)
(* toggle and remove jobs, the scheduler thread that fires due triggers,   *)
(* the thread pool that runs the scripts and the log file.  Time is        *)
(* counted in whole seconds since midnight of day 0.                       *)
(***************************************************************************)
EXTENDS Integers, Sequences, FiniteSets, Bags, TLC

VARIABLES
    now,        \* the wall clock, datetime.now(), in seconds
    jobs,       \* table "jobs" of scheduled_jobs.db: id -> row
    nextId,     \* the AUTOINCREMENT counter of table "jobs"
    registry,   \* the scheduler's job store: scheduler id -> trigger
    editing,    \* open EditJobWindow instances: job id -> number of windows
    fires,      \* per registered trigger: when it was added, its last two fires
    executor,   \* the ThreadPoolExecutor: work items submitted, waiting, running
    log,        \* the lines execute writes to script_logs.txt, as a bag
    lastOp      \* the handler that ran last and how it ended

vars == <<now, jobs, nextId, registry, editing, fires, executor, log, lastOp>>

----------------------------------------------------------------------------
(* Bounds of the model *)

MaxJobs == 1

MaxDays == 2

MaxWindows == 2

LongDays == 57

MaxIds == 3

MaxSubmits == 6

MaxRuns == 2

MaxTicks == 20

(* Program constants *)

Day == 86400

max_workers == 4

MisfireGrace == 1

MaxNow == MaxDays * Day

None == -1

NoId == <<>>

----------------------------------------------------------------------------
(* Generic helpers on finite maps *)

Put(f, k, v) == [x \in DOMAIN f \cup {k} |-> IF x = k THEN v ELSE f[x]]

Drop(f, k) == [x \in DOMAIN f \ {k} |-> f[x]]

----------------------------------------------------------------------------
(* Widget texts.  A Spinbox holds free text: a number or something int()   *)
(* rejects.                                                                *)

Num(v) == <<"int", v>>

Junk == <<"text">>

IsInt(t) == t[1] = "int"

IntOf(t) == t[2]

(* The time-of-day texts the user enters (hour, minute, second). *)
TimeTexts ==
    { <<Num(12), Num(0), Num(0)>>,
      <<Num(23), Num(59), Num(59)>>,
      <<Num(24), Num(0), Num(0)>>,
      <<Num(12), Num(60), Num(0)>>,
      <<Num(12), Num(0), Num(60)>>,
      <<Junk, Num(0), Num(0)>> }

(* The frequency combobox (nothing selected, or one of its five values)   *)
(* with the text of the custom-interval Spinbox, which is read only when   *)
(* "custom" is selected and holds 1 until the user types into it.          *)
FreqChoices ==
    { <<f, Num(1)>> : f \in { <<"">>, <<"once">>, <<"daily">>, <<"weekly">>, <<"monthly">> } }
    \cup { <<<<"custom">>, c>> : c \in { Num(1), Junk } }

(* An EditJobWindow opens with the combobox set to the stored frequency,  *)
(* so there it can also hold a stored "custom_<n>d".                       *)
EditFreqChoices == FreqChoices \cup { <<<<"custom", 1>>, Num(1)>> }

(* Script paths are sequences of path components. *)
SCRIPT_DIRECTORY == <<"D:", "WorldEconomicEngineProj", "IndiaStockExchange">>

ScriptNames == { "a.py" }

EditPaths == { SCRIPT_DIRECTORY \o <<"a.py">> }

Basename(path) == path[Len(path)]

----------------------------------------------------------------------------
(* Job table (sqlite).  A row is the tuple get_job_by_id returns:          *)
(* (id, script_path, hour, minute, second, frequency, active, scheduler_id)*)

NoRow == [id |-> None]

Row(id, script_path, hour, minute, second, frequency, active, scheduler_id) ==
    [id |-> id, script_path |-> script_path, hour |-> hour, minute |-> minute,
     second |-> second, frequency |-> frequency, active |-> active,
     scheduler_id |-> scheduler_id]

lastrowid_MaxPlusOne(db, next) ==
    IF DOMAIN db = {} THEN 1
    ELSE (CHOOSE m \in DOMAIN db : \A k \in DOMAIN db : k <= m) + 1

(* id INTEGER PRIMARY KEY AUTOINCREMENT: c.lastrowid of an INSERT is one    *)
(* more than the largest id the table has ever held, which sqlite keeps in *)
(* the database file.                                                      *)
lastrowid(db, next) == next

(* INSERT ... (script_path, hour, minute, second, frequency, active); the   *)
(* scheduler_id column stays NULL.  id is the row id sqlite assigns.        *)
add_job_to_db(db, id, script_path, hour, minute, second, frequency) ==
    Put(db, id, Row(id, script_path, hour, minute, second, frequency, 1, NoId))

(* UPDATE jobs SET scheduler_id=? WHERE id=?  (no row: nothing happens) *)
update_job_scheduler_id(db, id, scheduler_id) ==
    IF id \in DOMAIN db THEN [db EXCEPT ![id].scheduler_id = scheduler_id] ELSE db

(* UPDATE jobs SET script_path=?, ..., active=? WHERE id=? *)
update_job_in_db(db, id, script_path, hour, minute, second, frequency, active) ==
    IF id \in DOMAIN db
    THEN [db EXCEPT ![id] = Row(id, script_path, hour, minute, second, frequency,
                                active, db[id].scheduler_id)]
    ELSE db

(* DELETE FROM jobs WHERE id=? *)
remove_job_from_db(db, id) == Drop(db, id)

(* SELECT * FROM jobs WHERE id=? ; fetchone() gives None when absent *)
get_job_by_id(db, id) == IF id \in DOMAIN db THEN db[id] ELSE NoRow

----------------------------------------------------------------------------
(* Time arithmetic *)

(* datetime.replace(hour=, minute=, second=) raises ValueError outside these *)
ValidTime(hour, minute, second) ==
    hour \in 0..23 /\ minute \in 0..59 /\ second \in 0..59

TodSecs(hour, minute, second) == (hour * 60 + minute) * 60 + second

Midnight(t) == (t \div Day) * Day

(* The two things a whole-second clock cannot tell about a clock read:      *)
(* same  - the second datetime.now() of schedule_job returns the very same  *)
(*         instant as the first (no microsecond has passed in between);     *)
(* whole - the instant read has no sub-second part.                         *)
IntTexts(tt) == IsInt(tt[1]) /\ IsInt(tt[2]) /\ IsInt(tt[3])

InRange(tt) == ValidTime(IntOf(tt[1]), IntOf(tt[2]), IntOf(tt[3]))

(* One call of schedule_job reads at most one of the two, and only when    *)
(* the time of day it is given names the current second.                   *)
ClockReads(tt) ==
    IF IntTexts(tt)
       /\ Midnight(now) + TodSecs(IntOf(tt[1]), IntOf(tt[2]), IntOf(tt[3])) = now
    THEN { [same |-> b, whole |-> b] : b \in BOOLEAN }
    ELSE { [same |-> FALSE, whole |-> FALSE] }

(* run_date = now.replace(h, m, s); if run_date < now: run_date += 1 day.   *)
(* replace keeps the microseconds of the first read, so when the time of    *)
(* day names the current second run_date is the first read itself, and it   *)
(* is < the second read unless both reads are the same instant.             *)
RunDate(hour, minute, second, clk) ==
    LET run_date == Midnight(now) + TodSecs(hour, minute, second)
    IN  IF run_date < now \/ (run_date = now /\ ~clk.same)
        THEN run_date + Day
        ELSE run_date

(* CronTrigger: the first instant at or after t whose time of day is tod.  *)
(* t itself matches only when it has no sub-second part.                   *)
CronFirst(tod, t, whole) ==
    LET c == Midnight(t) + tod
    IN  IF c > t \/ (c = t /\ whole) THEN c ELSE c + Day

(* CronTrigger: the first instant strictly after a previous fire. *)
CronAfter(tod, previous) ==
    LET c == Midnight(previous) + tod
    IN  IF c > previous THEN c ELSE c + Day

(* IntervalTrigger: an interval of length 0 becomes one second. *)
IntervalLength(days) == IF days * Day = 0 THEN 1 ELSE days * Day

get_next_fire_time_FromNow(trig, previous) ==
    IF trig.trigger = "interval" THEN now + trig.interval
    ELSE IF trig.trigger = "cron" THEN CronAfter(trig.tod, now)
    ELSE None

(* trigger.get_next_fire_time(previous_fire_time, now), previous given *)
get_next_fire_time(trig, previous) ==
    IF trig.trigger = "interval" THEN previous + trig.interval
    ELSE IF trig.trigger = "cron" THEN CronAfter(trig.tod, previous)
    ELSE None

(* job._get_run_times(now) with coalesce: the last fire time <= t *)
RECURSIVE LastRunTime(_, _, _)
LastRunTime(trig, run_time, t) ==
    LET nxt == get_next_fire_time(trig, run_time)
    IN  IF nxt # None /\ nxt <= t THEN LastRunTime(trig, nxt, t) ELSE run_time

----------------------------------------------------------------------------
(* Scheduler job management (schedule_job, remove_scheduler_job,           *)
(* reschedule_job).  They work on st = [db, reg]: the job table and the    *)
(* trigger registry, and return the same with                              *)
(*   raised - the exception that escaped, or "none"                        *)
(*   added  - the id of the trigger add_job registered, or NoId            *)

SchedulerId(id, script_path, hour, minute, second) ==
    <<id, Basename(script_path), hour, minute, second>>

JobOf(scheduler_id) == scheduler_id[1]

StartsWithCustom(frequency) == frequency[1] = "custom" /\ Len(frequency) = 2

CustomDays(frequency) == frequency[2]

Trigger(kind, tod, interval, next_run_time, script_path) ==
    [trigger |-> kind, tod |-> tod, interval |-> interval,
     next_run_time |-> next_run_time, args |-> script_path]

DailyTrigger_FromNow(hour, minute, second, script_path, clk) ==
    Trigger("interval", 0, Day, now + Day, script_path)

(* 'cron', hour=, minute=, second= *)
DailyTrigger(hour, minute, second, script_path, clk) ==
    Trigger("cron", TodSecs(hour, minute, second), 0,
            CronFirst(TodSecs(hour, minute, second), now, clk.whole), script_path)

(* 'interval' with no start_date: the first fire is one interval from now *)
IntervalTrigger(days, script_path) ==
    Trigger("interval", 0, IntervalLength(days), now + IntervalLength(days), script_path)

(* 'date', run_date= *)
DateTrigger(run_date, script_path) ==
    Trigger("date", 0, 0, run_date, script_path)

TriggerFor(script_path, hour, minute, second, frequency, clk) ==
    IF frequency = <<"daily">> THEN DailyTrigger(hour, minute, second, script_path, clk)
    ELSE IF frequency = <<"weekly">> THEN IntervalTrigger(7, script_path)
    ELSE IF frequency = <<"monthly">> THEN IntervalTrigger(4 * 7, script_path)
    ELSE IF StartsWithCustom(frequency)
         THEN IntervalTrigger(CustomDays(frequency), script_path)
    ELSE DateTrigger(RunDate(hour, minute, second, clk), script_path)

Raise(st, exc) == [db |-> st.db, reg |-> st.reg, raised |-> exc, added |-> NoId]

schedule_job(st, id, script_path, hour, minute, second, frequency, clk) ==
    LET scheduler_id == SchedulerId(id, script_path, hour, minute, second)
    IN  IF ~ValidTime(hour, minute, second) THEN Raise(st, "ValueError")
        ELSE IF scheduler_id \in DOMAIN st.reg THEN Raise(st, "ConflictingIdError")
        ELSE [db |-> update_job_scheduler_id(st.db, id, scheduler_id),
              reg |-> Put(st.reg, scheduler_id,
                          TriggerFor(script_path, hour, minute, second, frequency, clk)),
              raised |-> "none",
              added |-> scheduler_id]

remove_scheduler_job_Noop(reg, scheduler_id) == reg

(* scheduler.remove_job raises JobLookupError for an unknown id; caught, logged *)
remove_scheduler_job(reg, scheduler_id) ==
    IF scheduler_id \in DOMAIN reg THEN Drop(reg, scheduler_id) ELSE reg

reschedule_job_CancelRaises(st, id, script_path, hour, minute, second, frequency, clk) ==
    LET job == get_job_by_id(st.db, id)
    IN  IF job # NoRow /\ job.scheduler_id # NoId /\ job.scheduler_id \notin DOMAIN st.reg
        THEN Raise(st, "JobLookupError")
        ELSE schedule_job([db |-> st.db,
                           reg |-> IF job # NoRow /\ job.scheduler_id # NoId
                                   THEN remove_scheduler_job(st.reg, job.scheduler_id)
                                   ELSE st.reg],
                          id, script_path, hour, minute, second, frequency, clk)

reschedule_job(st, id, script_path, hour, minute, second, frequency, clk) ==
    LET job == get_job_by_id(st.db, id)
        reg1 == IF job # NoRow /\ job.scheduler_id # NoId
                THEN remove_scheduler_job(st.reg, job.scheduler_id)
                ELSE st.reg
    IN  schedule_job([db |-> st.db, reg |-> reg1], id, script_path,
                     hour, minute, second, frequency, clk)

----------------------------------------------------------------------------
(* Script execution: run_script and the thread pool.  A work item is the   *)
(* closure execute of one run_script call; run numbers the calls, src      *)
(* tells which trigger made the call (Manual for the "Run Now" button).    *)

Manual == <<"manual">>

NoExecutor == [submitted |-> 0, queue |-> << >>, running |-> {}]

WorkItem(run, script_path, src) == [run |-> run, script_path |-> script_path, src |-> src]

submit_DropWhenBusy(ex, script_path, src) ==
    IF Cardinality(ex.running) = max_workers
    THEN [ex EXCEPT !.submitted = @ + 1]
    ELSE [ex EXCEPT !.submitted = @ + 1,
                    !.queue = Append(@, WorkItem(ex.submitted + 1, script_path, src))]

(* executor.submit(execute): the work item joins the queue of the pool; the *)
(* queue has no limit.                                                     *)
submit(ex, script_path, src) ==
    [ex EXCEPT !.submitted = @ + 1,
               !.queue = Append(@, WorkItem(ex.submitted + 1, script_path, src))]

run_script_Twice(ex, script_path, src) ==
    submit(submit(ex, script_path, src), script_path, src)

run_script(ex, script_path, src) == submit(ex, script_path, src)

(* How subprocess.run(["python", script_path], capture_output=True) can    *)
(* end: the interpreter exits with the script's status (0, or 1 here), it  *)
(* exits with status 2 because it cannot open script_path, or it cannot be *)
(* started at all and subprocess.run raises OSError.                       *)
Endings == { <<"exit", 0>>, <<"exit", 1>>, <<"exit", 2>>, <<"OSError">> }

(* A returned CompletedProcess is logged as "Finished" whatever its        *)
(* returncode (check is not set); only an exception is logged as "Error".  *)
Outcome(ending) == IF ending[1] = "exit" THEN "Finished" ELSE "Error"

LogLine(kind, item, ending) ==
    [kind |-> kind, script_path |-> item.script_path, run |-> item.run, ending |-> ending]

----------------------------------------------------------------------------
(* Bookkeeping shared by the actions *)

FreshFires == [prev |-> None, last |-> None]

(* fires follows the registry: a trigger added by this step starts afresh. *)
FiresAfter(reg, added) ==
    [x \in DOMAIN reg |-> IF x = added \/ x \notin DOMAIN fires THEN FreshFires ELSE fires[x]]

Op(op, job, result) == [op |-> op, result |-> result]

Commit(res, op, job, okText) ==
    /\ jobs' = res.db
    /\ registry' = res.reg
    /\ fires' = FiresAfter(res.reg, res.added)
    /\ lastOp' = Op(op, job, IF res.raised = "none" THEN okText ELSE res.raised)

Rejected(op, job, text) ==
    /\ lastOp' = Op(op, job, text)
    /\ UNCHANGED <<jobs, nextId, registry, editing, fires, executor, log>>

----------------------------------------------------------------------------
(* The handlers of the Tk main loop *)

Frequency(freq_var, custom_spin) ==
    IF freq_var = <<"custom">> THEN <<"custom", IntOf(custom_spin)>> ELSE freq_var

(* SchedulerApp.schedule_script: the "Schedule Script" button *)
schedule_script(script_name, tt, freq_var, custom_spin, clk) ==
    /\ UNCHANGED now
    /\ IF ~(IsInt(tt[1]) /\ IsInt(tt[2]) /\ IsInt(tt[3]))
       THEN Rejected("schedule_script", None, "Invalid time values.")
       ELSE IF freq_var = <<"custom">> /\ ~IsInt(custom_spin)
       THEN Rejected("schedule_script", None, "Invalid custom interval.")
       ELSE LET script_path == SCRIPT_DIRECTORY \o <<script_name>>
                hour == IntOf(tt[1])
                minute == IntOf(tt[2])
                second == IntOf(tt[3])
                frequency == Frequency(freq_var, custom_spin)
                job_db_id == lastrowid(jobs, nextId)
                db1 == add_job_to_db(jobs, job_db_id, script_path, hour, minute,
                                     second, frequency)
                res == schedule_job([db |-> db1, reg |-> registry], job_db_id,
                                    script_path, hour, minute, second, frequency, clk)
            IN  /\ nextId' = IF job_db_id < nextId THEN nextId ELSE job_db_id + 1
                /\ Commit(res, "schedule_script", job_db_id, "Script Scheduled!")
                /\ UNCHANGED <<editing, executor, log>>

(* SchedulerApp.edit_job_ui: opens an EditJobWindow on the selected job.   *)
(* The window is not modal and keeps the job tuple it was opened with.     *)
edit_job_ui(job_id) ==
    /\ job_id \in DOMAIN jobs
    /\ editing' = [editing EXCEPT ![job_id] = @ + 1]
    /\ lastOp' = Op("edit_job_ui", job_id, "window opened")
    /\ UNCHANGED <<now, jobs, nextId, registry, fires, executor, log>>

(* EditJobWindow.save_changes: the "Save Changes" button of an open window *)
save_changes(job_db_id, script_path, tt, freq_var, custom_spin, clk) ==
    /\ editing[job_db_id] > 0
    /\ UNCHANGED now
    /\ IF ~(IsInt(tt[1]) /\ IsInt(tt[2]) /\ IsInt(tt[3]))
       THEN Rejected("save_changes", job_db_id, "Invalid time values.")
       ELSE IF freq_var = <<"custom">> /\ ~IsInt(custom_spin)
       THEN Rejected("save_changes", job_db_id, "Invalid custom interval.")
       ELSE LET hour == IntOf(tt[1])
                minute == IntOf(tt[2])
                second == IntOf(tt[3])
                frequency == Frequency(freq_var, custom_spin)
                active == 1
                db1 == update_job_in_db(jobs, job_db_id, script_path, hour, minute,
                                        second, frequency, active)
                res == reschedule_job([db |-> db1, reg |-> registry], job_db_id,
                                      script_path, hour, minute, second, frequency, clk)
            IN  /\ Commit(res, "save_changes", job_db_id, "Job updated.")
                /\ editing' = IF res.raised = "none"
                              THEN [editing EXCEPT ![job_db_id] = @ - 1]
                              ELSE editing
                /\ UNCHANGED <<nextId, executor, log>>

(* SchedulerApp.toggle_job_ui: the "Toggle Job" button on the selected job *)
toggle_job_ui(job_id) ==
    /\ job_id \in DOMAIN jobs
    /\ LET job == get_job_by_id(jobs, job_id)
           new_status == IF job.frequency = <<"Active">> \/ job.active = 1 THEN 0 ELSE 1
           db1 == update_job_in_db(jobs, job_id, job.script_path, job.hour, job.minute,
                                   job.second, job.frequency, new_status)
           st1 == [db |-> db1, reg |-> registry]
           res == IF new_status = 0
                  THEN [db |-> db1,
                        reg |-> IF job.scheduler_id # NoId
                                THEN remove_scheduler_job(registry, job.scheduler_id)
                                ELSE registry,
                        raised |-> "none", added |-> NoId]
                  \* reschedule_job(job_id, job[1], job[2], job[3], job[4]): five
                  \* arguments for six parameters, so the call itself raises
                  ELSE Raise(st1, "TypeError")
       IN  Commit(res, "toggle_job_ui", job_id, "Toggled job")
    /\ UNCHANGED <<now, nextId, editing, executor, log>>

(* SchedulerApp.remove_job_ui: the "Remove Job" button on the selected job *)
remove_job_ui(job_id) ==
    /\ job_id \in DOMAIN jobs
    /\ LET job == get_job_by_id(jobs, job_id)
           reg1 == IF job # NoRow /\ job.scheduler_id # NoId
                   THEN remove_scheduler_job(registry, job.scheduler_id)
                   ELSE registry
       IN  Commit([db |-> remove_job_from_db(jobs, job_id), reg |-> reg1,
                   raised |-> "none", added |-> NoId],
                  "remove_job_ui", job_id, "Removed job")
    /\ UNCHANGED <<now, nextId, editing, executor, log>>

(* SchedulerApp.run_script_manually: the "Run Now" button *)
run_script_manually(script_name) ==
    /\ executor' = run_script(executor, SCRIPT_DIRECTORY \o <<script_name>>, Manual)
    /\ lastOp' = Op("run_script_manually", None, "Executed")
    /\ UNCHANGED <<now, jobs, nextId, registry, editing, fires, log>>

----------------------------------------------------------------------------
(* The worker threads of the pool *)

WorkerStart_NoLimit ==
    /\ executor.queue # << >>
    /\ LET item == Head(executor.queue)
       IN  /\ executor' = [executor EXCEPT !.queue = Tail(@), !.running = @ \cup {item}]
           /\ log' = log (+) SetToBag({ [kind |-> "Running", script_path |-> item.script_path,
                                        run |-> item.run, ending |-> << >>] })
    /\ lastOp' = [op |-> "execute", result |-> "started"]
    /\ UNCHANGED <<now, jobs, nextId, registry, editing, fires>>

(* A free worker takes the oldest waiting work item and calls execute,     *)
(* which logs "Running" and starts the interpreter.                        *)
WorkerStart ==
    /\ executor.queue # << >>
    /\ Cardinality(executor.running) < max_workers
    /\ LET item == Head(executor.queue)
       IN  /\ executor' = [executor EXCEPT !.queue = Tail(@), !.running = @ \cup {item}]
           /\ log' = log (+) SetToBag({ LogLine("Running", item, << >>) })
    /\ lastOp' = Op("execute", None, "started")
    /\ UNCHANGED <<now, jobs, nextId, registry, editing, fires>>

(* subprocess.run returns or raises; execute logs the one or the other and *)
(* the worker is free again.                                               *)
WorkerFinish(item, ending) ==
    /\ item \in executor.running
    /\ executor' = [executor EXCEPT !.running = @ \ {item}]
    /\ log' = log (+) SetToBag({ LogLine(Outcome(ending), item, ending) })
    /\ lastOp' = Op("execute", None, Outcome(ending))
    /\ UNCHANGED <<now, jobs, nextId, registry, editing, fires>>

----------------------------------------------------------------------------
(* Process restart *)

DueNow == { x \in DOMAIN registry : registry[x].next_run_time <= now }

(* The process ends and the module is loaded again.  The two sqlite files  *)
(* and the log file stay; the windows, the pool and its work items are     *)
(* gone.  Nothing reads table "jobs" to register triggers: the registry is *)
(* what SQLAlchemyJobStore kept in apscheduler_jobs.db.  scheduler.start() *)
(* runs before run_script is defined, so the scheduler thread may try to   *)
(* restore a trigger that is already due while its function               *)
(* "__main__:run_script" cannot be resolved yet; the job store then        *)
(* deletes that trigger.  lost is the set of triggers deleted this way.    *)
Restart(lost) ==
    /\ lost \subseteq DueNow
    /\ registry' = [x \in DOMAIN registry \ lost |-> registry[x]]
    /\ fires' = [x \in DOMAIN registry \ lost |-> fires[x]]
    /\ editing' = [j \in 1..MaxJobs |-> 0]
    /\ executor' = NoExecutor
    /\ lastOp' = Op("restart", None, "started")
    /\ UNCHANGED <<now, jobs, nextId, log>>

----------------------------------------------------------------------------
(* The scheduler thread and the clock *)

(* BackgroundScheduler._process_jobs for one due trigger: it calls         *)
(* run_script(script_path) for the last due fire time, then stores the     *)
(* next fire time, or removes the trigger when there is none.              *)
Fire(scheduler_id) ==
    /\ scheduler_id \in DOMAIN registry
    /\ registry[scheduler_id].next_run_time <= now
    /\ LET trig == registry[scheduler_id]
           run_time == LastRunTime(trig, trig.next_run_time, now)
           nxt == get_next_fire_time(trig, run_time)
           reg1 == IF nxt = None
                   THEN Drop(registry, scheduler_id)
                   ELSE [registry EXCEPT ![scheduler_id].next_run_time = nxt]
       IN  /\ registry' = reg1
           /\ fires' = [x \in DOMAIN reg1 |->
                          IF x = scheduler_id
                          THEN [prev |-> fires[x].last, last |-> run_time]
                          ELSE fires[x]]
           /\ executor' = run_script(executor, trig.args, scheduler_id)
    /\ lastOp' = Op("run_script", JobOf(scheduler_id), "submitted")
    /\ UNCHANGED <<now, jobs, nextId, editing, log>>

Due == { registry[x].next_run_time : x \in DOMAIN registry }

(* The instants the model lets the clock jump to: the next noon while no   *)
(* trigger is registered, else a due time or a due time missed by the      *)
(* grace time.                                                             *)
NextNoon == CronAfter(TodSecs(12, 0, 0), now)

AdvanceTargets ==
    IF Due = {} THEN { NextNoon } ELSE Due \cup { d + MisfireGrace : d \in Due }

(* Time passes.  The scheduler thread sleeps until the next due time, so   *)
(* the clock never passes a due trigger by more than the misfire grace.    *)
Advance(t) ==
    /\ t > now
    /\ \A d \in Due : t <= d + MisfireGrace
    /\ now' = t
    /\ lastOp' = Op("clock", None, "tick")
    /\ UNCHANGED <<jobs, nextId, registry, editing, fires, executor, log>>

----------------------------------------------------------------------------

Init ==
    /\ now = 12 * 60 * 60
    /\ jobs = << >>
    /\ nextId = 1
    /\ registry = << >>
    /\ editing = [j \in 1..MaxJobs |-> 0]
    /\ fires = << >>
    /\ executor = NoExecutor
    /\ log = EmptyBag
    /\ lastOp = Op("start", None, "")

Next ==
    \/ /\ nextId <= MaxJobs
       /\ \E n \in ScriptNames, tt \in TimeTexts, f \in FreqChoices :
            \E clk \in ClockReads(tt) : schedule_script(n, tt, f[1], f[2], clk)
    \/ \E j \in DOMAIN jobs : editing[j] < MaxWindows /\ edit_job_ui(j)
    \/ \E j \in 1..MaxJobs, p \in EditPaths, tt \in TimeTexts, f \in EditFreqChoices :
            \E clk \in ClockReads(tt) : save_changes(j, p, tt, f[1], f[2], clk)
    \/ \E j \in DOMAIN jobs : toggle_job_ui(j)
    \/ \E j \in DOMAIN jobs : remove_job_ui(j)
    \/ \E x \in DOMAIN registry : executor.submitted < MaxRuns /\ Fire(x)
    \/ \E t \in AdvanceTargets : t <= MaxNow /\ Advance(t)
    \/ \E lost \in SUBSET DueNow : Restart(lost)

Spec == Init /\ [][Next]_vars

ValidTimeTexts == { tt \in TimeTexts : IntTexts(tt) /\ InRange(tt) }

(* The recurrences over a long horizon: jobs are created with a valid time *)
(* of day, paused and removed, none is edited, and the clock runs for      *)
(* LongDays.  The custom interval is 3 days here.                          *)
RecurFreqChoices ==
    { f \in FreqChoices : f[1] \notin { <<"">>, <<"custom">> } } \cup { <<<<"custom">>, Num(3)>> }

NextRecur ==
    \/ /\ nextId <= MaxJobs
       /\ \E n \in ScriptNames, tt \in ValidTimeTexts, f \in RecurFreqChoices :
            \E clk \in ClockReads(tt) : schedule_script(n, tt, f[1], f[2], clk)
    \/ \E j \in DOMAIN jobs : toggle_job_ui(j)
    \/ \E j \in DOMAIN jobs : remove_job_ui(j)
    \/ \E x \in DOMAIN registry : Fire(x)
    \/ \E t \in AdvanceTargets : t <= LongDays * Day /\ Advance(t)

SpecRecur == Init /\ [][NextRecur]_vars

(* The pool with the job handlers: jobs are created with a valid time of   *)
(* day, paused and removed, scripts are run by hand, triggers fire, and    *)
(* the workers run what was submitted.                                     *)
NextExec ==
    \/ /\ nextId <= MaxJobs
       /\ \E n \in ScriptNames, tt \in ValidTimeTexts, f \in RecurFreqChoices :
            \E clk \in ClockReads(tt) : schedule_script(n, tt, f[1], f[2], clk)
    \/ \E j \in DOMAIN jobs : toggle_job_ui(j)
    \/ \E j \in DOMAIN jobs : remove_job_ui(j)
    \/ \E n \in ScriptNames : executor.submitted < MaxRuns /\ run_script_manually(n)
    \/ \E x \in DOMAIN registry : executor.submitted < MaxRuns /\ Fire(x)
    \/ \E t \in AdvanceTargets : t <= MaxNow /\ Advance(t)
    \/ WorkerStart
    \/ \E item \in executor.running, ending \in Endings : WorkerFinish(item, ending)

SpecExec == Init /\ [][NextExec]_vars

(* The pool alone: up to MaxSubmits runs are submitted by hand, more than  *)
(* there are workers.  Each worker goes on when it can and each script     *)
(* ends.                                                                   *)
FinishRun(run) ==
    \E item \in executor.running, ending \in Endings :
        item.run = run /\ WorkerFinish(item, ending)

NextPool ==
    \/ \E n \in ScriptNames : executor.submitted < MaxSubmits /\ run_script_manually(n)
    \/ WorkerStart
    \/ \E run \in 1..MaxSubmits : FinishRun(run)

SpecPool ==
    /\ Init /\ [][NextPool]_vars
    /\ WF_vars(WorkerStart)
    /\ \A run \in 1..MaxSubmits : WF_vars(FinishRun(run))

(* Row ids: jobs are created and removed and the process is restarted.     *)
NextIds ==
    \/ /\ nextId <= MaxIds
       /\ \E n \in ScriptNames, tt \in ValidTimeTexts, f \in RecurFreqChoices :
            \E clk \in ClockReads(tt) : schedule_script(n, tt, f[1], f[2], clk)
    \/ \E j \in DOMAIN jobs : remove_job_ui(j)
    \/ \E lost \in SUBSET DueNow : Restart(lost)

SpecIds == Init /\ [][NextIds]_vars

(* Custom intervals: the custom Spinbox holds 0 or 1, and the clock runs   *)
(* for MaxTicks seconds.                                                   *)
CustomFreqChoices == { <<<<"custom">>, Num(n)>> : n \in { 0, 1 } }

NextCustom ==
    \/ /\ nextId <= MaxJobs
       /\ \E n \in ScriptNames, tt \in ValidTimeTexts, f \in CustomFreqChoices :
            \E clk \in ClockReads(tt) : schedule_script(n, tt, f[1], f[2], clk)
    \/ \E j \in DOMAIN jobs : toggle_job_ui(j)
    \/ \E j \in DOMAIN jobs : remove_job_ui(j)
    \/ \E x \in DOMAIN registry : Fire(x)
    \/ \E t \in AdvanceTargets : t <= 12 * 60 * 60 + MaxTicks /\ Advance(t)

SpecCustom == Init /\ [][NextCustom]_vars

(* The pool under load from both sides: a job with a custom interval of 0  *)
(* or 1 days fires (with 0, every second), scripts are run by hand, up to  *)
(* MaxSubmits runs in all, and every script ends with status 0.            *)
BusyEndings == { <<"exit", 0>> }

NextBusy ==
    \/ /\ nextId <= MaxJobs
       /\ \E n \in ScriptNames, tt \in ValidTimeTexts, f \in CustomFreqChoices :
            \E clk \in ClockReads(tt) : schedule_script(n, tt, f[1], f[2], clk)
    \/ \E n \in ScriptNames : executor.submitted < MaxSubmits /\ run_script_manually(n)
    \/ \E x \in DOMAIN registry : executor.submitted < MaxSubmits /\ Fire(x)
    \/ \E t \in AdvanceTargets : t <= 12 * 60 * 60 + MaxTicks /\ Advance(t)
    \/ WorkerStart
    \/ \E item \in executor.running, ending \in BusyEndings : WorkerFinish(item, ending)

SpecBusy == Init /\ [][NextBusy]_vars

----------------------------------------------------------------------------
(* Properties *)

TriggersOf(reg, job_id) == { x \in DOMAIN reg : JobOf(x) = job_id }

(* C1: the registry holds at most one trigger per job id, in every         *)
(* reachable state.                                                        *)
C1_OneTriggerPerJob ==
    \A x, y \in DOMAIN registry : JobOf(x) = JobOf(y) => x = y

(* C2: for every stored job, active is set if and only if its scheduler_id *)
(* is set and names a trigger of the registry.                             *)
C2_ActiveIffTrigger ==
    \A j \in DOMAIN jobs :
        (jobs[j].active = 1) <=>
            (jobs[j].scheduler_id # NoId /\ jobs[j].scheduler_id \in DOMAIN registry)

(* C3: toggling a paused job completes without an error and leaves a       *)
(* trigger for the job in the registry.                                    *)
C3_ReactivateRegisters ==
    [][ \A j \in DOMAIN jobs :
            (jobs[j].active = 0 /\ toggle_job_ui(j)) =>
                (lastOp'.result = "Toggled job" /\ TriggersOf(registry', j) # {}) ]_vars

(* C4: a job whose active flag is 0 has no trigger in the registry after   *)
(* any step, and no step of the scheduler thread fires a trigger of a job  *)
(* whose active flag is 0.                                                 *)
C4_InactiveNeverFires ==
    [][ /\ \A j \in DOMAIN jobs' : jobs'[j].active = 0 => TriggersOf(registry', j) = {}
        /\ \A x \in DOMAIN registry :
              (Fire(x) /\ JobOf(x) \in DOMAIN jobs) => jobs[JobOf(x)].active = 1 ]_vars

(* C4 witness: a deactivated daily job, once scheduled, a day or more      *)
(* after the start, the clock having just moved.                           *)
C4_Witness ==
    \E j \in DOMAIN jobs :
        /\ jobs[j].active = 0
        /\ jobs[j].scheduler_id # NoId
        /\ jobs[j].frequency = <<"daily">>
        /\ lastOp.op = "clock"
        /\ now >= Day + 12 * 60 * 60

(* A step that is a create or an update of job j with these widget texts *)
Registers(j, tt, freq_var, custom_spin, clk) ==
    \/ /\ j = nextId
       /\ \E n \in ScriptNames : schedule_script(n, tt, freq_var, custom_spin, clk)
    \/ \E p \in EditPaths : save_changes(j, p, tt, freq_var, custom_spin, clk)

(* Today at the time of day when that is strictly after now, else tomorrow *)
TodayOrTomorrow(tt) ==
    LET today == Midnight(now) + TodSecs(IntOf(tt[1]), IntOf(tt[2]), IntOf(tt[3]))
    IN  IF today > now THEN today ELSE today + Day

(* The trigger the row of job j names, when the registry holds it *)
LiveTriggers ==
    { x \in DOMAIN registry :
        JobOf(x) \in DOMAIN jobs /\ jobs[JobOf(x)].scheduler_id = x }

(* C5: a job created or updated with a valid time of day and "once" gets a *)
(* trigger due today at that time when that is strictly after now and      *)
(* tomorrow at that time otherwise; firing it removes it.                  *)
C5_OnceFireInstant ==
    [][ /\ \A j \in 1..MaxJobs, tt \in ValidTimeTexts : \A clk \in ClockReads(tt) :
              Registers(j, tt, <<"once">>, Num(1), clk) =>
                  /\ TriggersOf(registry', j) # {}
                  /\ \A x \in TriggersOf(registry', j) :
                        registry'[x].next_run_time = TodayOrTomorrow(tt)
        /\ \A x \in DOMAIN registry :
              (registry[x].trigger = "date" /\ Fire(x)) => x \notin DOMAIN registry' ]_vars

(* C6: a job created or updated with a valid time of day and "weekly" gets *)
(* a trigger whose first fire is where "once" would put it, and each fire  *)
(* of it sets the next one 7 days later.                                   *)
C6_WeeklyFirstFire ==
    [][ /\ \A j \in 1..MaxJobs, tt \in ValidTimeTexts : \A clk \in ClockReads(tt) :
              Registers(j, tt, <<"weekly">>, Num(1), clk) =>
                  /\ TriggersOf(registry', j) # {}
                  /\ \A x \in TriggersOf(registry', j) :
                        registry'[x].next_run_time = TodayOrTomorrow(tt)
        /\ \A x \in LiveTriggers :
              (jobs[JobOf(x)].frequency = <<"weekly">> /\ Fire(x)) =>
                  /\ x \in DOMAIN registry'
                  /\ registry'[x].next_run_time = registry[x].next_run_time + 7 * Day ]_vars

(* The fixed period of a repeating recurrence, None when it has none here *)
PeriodOf(frequency) ==
    IF frequency = <<"monthly">> THEN 28 * Day
    ELSE IF StartsWithCustom(frequency) /\ CustomDays(frequency) >= 1
         THEN CustomDays(frequency) * Day
    ELSE None

(* C7: for a monthly or custom_<n>d job (n >= 1) whose trigger stays       *)
(* registered, two consecutive fire instants are exactly 28 days, n days   *)
(* apart, and the next fire is set one period after the last scheduled     *)
(* fire instant, whenever that fire was actually executed.                 *)
C7_FixedPeriod ==
    \A x \in LiveTriggers :
        LET period == PeriodOf(jobs[JobOf(x)].frequency)
        IN  period # None =>
              /\ fires[x].prev # None => fires[x].last - fires[x].prev = period
              /\ fires[x].last # None =>
                    registry[x].next_run_time = fires[x].last + period

(* C7 witness: a monthly job has fired twice, the second time a second     *)
(* after the scheduled instant.                                            *)
C7_Witness ==
    \E x \in LiveTriggers :
        /\ jobs[JobOf(x)].frequency = <<"monthly">>
        /\ fires[x].prev # None
        /\ lastOp.op = "run_script"
        /\ now = fires[x].last + MisfireGrace

(* C8: every fire instant of a daily job is at the job's time of day, two  *)
(* consecutive ones are exactly 24 hours apart, and so is the next one     *)
(* from the last.                                                          *)
C8_DailyNoDrift ==
    \A x \in LiveTriggers :
        LET job == jobs[JobOf(x)]
            tod == TodSecs(job.hour, job.minute, job.second)
        IN  job.frequency = <<"daily">> =>
              /\ registry[x].next_run_time % Day = tod
              /\ fires[x].last # None =>
                    /\ fires[x].last % Day = tod
                    /\ registry[x].next_run_time = fires[x].last + Day
              /\ fires[x].prev # None => fires[x].last - fires[x].prev = Day

(* C8 witness: a daily job has fired LongDays - 1 times or more, the last  *)
(* time a second after the scheduled instant.                              *)
C8_Witness ==
    \E x \in LiveTriggers :
        /\ jobs[JobOf(x)].frequency = <<"daily">>
        /\ fires[x].prev # None
        /\ lastOp.op = "run_script"
        /\ now = fires[x].last + MisfireGrace
        /\ now > (LongDays - 1) * Day

(* C9: a create or an update whose time of day is out of range leaves the  *)
(* job table and the registry as they were.                                *)
C9_InvalidTimeRejected ==
    [][ \A j \in 1..MaxJobs, tt \in TimeTexts, f \in EditFreqChoices :
          \A clk \in ClockReads(tt) :
            (IntTexts(tt) /\ ~InRange(tt) /\ Registers(j, tt, f[1], f[2], clk))
                => (jobs' = jobs /\ registry' = registry) ]_vars

(* C10: removing a job leaves no row and no trigger of it, and no trigger  *)
(* fires for a job that has no row.                                        *)
C10_DeletedJobGone ==
    [][ /\ \A j \in DOMAIN jobs :
              remove_job_ui(j) => (j \notin DOMAIN jobs' /\ TriggersOf(registry', j) = {})
        /\ \A x \in DOMAIN registry : Fire(x) => JobOf(x) \in DOMAIN jobs ]_vars

(* The lines of the given kinds that run wrote to the log *)
LinesOf(run, kinds) == { l \in BagToSet(log) : l.run = run /\ l.kind \in kinds }

WroteOnce(run, kinds) ==
    /\ Cardinality(LinesOf(run, kinds)) = 1
    /\ \A l \in LinesOf(run, kinds) : CopiesIn(l, log) = 1

Waiting(run) == \E i \in 1..Len(executor.queue) : executor.queue[i].run = run

Running(run) == \E item \in executor.running : item.run = run

(* execute was called for the run and came to its end, once *)
Executed(run) ==
    /\ WroteOnce(run, {"Running"})
    /\ WroteOnce(run, {"Finished", "Error"})
    /\ ~Waiting(run) /\ ~Running(run)

Executions == Cardinality({ run \in 1..executor.submitted : Executed(run) })

(* C11: every run submitted to the pool is waiting, running or executed    *)
(* and never two of these (none is dropped, none is executed twice), also  *)
(* with more runs submitted than there are workers; every submitted run is *)
(* eventually executed; and when nothing waits or runs the number of       *)
(* executions is the number of submissions.                                *)
C11_AllRunsExecuted ==
    /\ [](\A run \in 1..executor.submitted :
            \/ Waiting(run) /\ ~Running(run) /\ LinesOf(run, {"Running", "Finished", "Error"}) = {}
            \/ /\ Running(run) /\ ~Waiting(run)
               /\ WroteOnce(run, {"Running"}) /\ LinesOf(run, {"Finished", "Error"}) = {}
            \/ Executed(run))
    /\ []((executor.queue = << >> /\ executor.running = {}) => Executions = executor.submitted)
    /\ \A run \in 1..MaxSubmits : (executor.submitted >= run) ~> Executed(run)

(* C11 witness: all MaxSubmits runs are submitted, every worker is busy,   *)
(* one run waits and one has been executed.                                *)
C11_Witness ==
    /\ executor.submitted = MaxSubmits
    /\ executor.submitted > max_workers
    /\ Cardinality(executor.running) = max_workers
    /\ executor.queue # << >>
    /\ Executions >= 1

(* C12: an outcome line tells how the run ended: a run that ended with a   *)
(* non-zero exit status or could not be launched is never logged as        *)
(* "Finished", a launch failure and a non-zero exit are logged with        *)
(* different kinds, and a run writes at most one outcome line.             *)
C12_OutcomeTellsEnding ==
    /\ \A l \in BagToSet(log) :
          (l.kind # "Running" /\ l.ending # <<"exit", 0>>) => l.kind # "Finished"
    /\ \A l, m \in BagToSet(log) :
          (l.ending = <<"OSError">> /\ m.kind # "Running" /\ m.ending # <<"OSError">>
              /\ m.ending # <<"exit", 0>>) => l.kind # m.kind
    /\ \A run \in 1..executor.submitted :
          LinesOf(run, {"Finished", "Error"}) # {} => WroteOnce(run, {"Finished", "Error"})

(* C13: no run of a job starts once the job's trigger has been cancelled   *)
(* by a delete or a deactivation (the job has no row, or its active flag   *)
(* is 0), and one fire of a trigger submits exactly one run.               *)
C13_NoRunAfterCancel ==
    [][ /\ WorkerStart =>
              LET item == Head(executor.queue)
              IN  item.src # Manual =>
                    /\ JobOf(item.src) \in DOMAIN jobs
                    /\ jobs[JobOf(item.src)].active = 1
        /\ \A x \in DOMAIN registry :
              Fire(x) => /\ executor'.submitted = executor.submitted + 1
                         /\ Len(executor'.queue) = Len(executor.queue) + 1 ]_vars

(* C14: after a restart every active job has the trigger its stored fields *)
(* name, no inactive job has a trigger, every trigger belongs to a stored  *)
(* job, and the registry is the one before the restart.                    *)
C14_RestartRebuilds ==
    [][ \A lost \in SUBSET DueNow :
          Restart(lost) =>
            /\ \A j \in DOMAIN jobs :
                  IF jobs[j].active = 1
                  THEN SchedulerId(j, jobs[j].script_path, jobs[j].hour,
                                   jobs[j].minute, jobs[j].second) \in DOMAIN registry'
                  ELSE TriggersOf(registry', j) = {}
            /\ \A x \in DOMAIN registry' : JobOf(x) \in DOMAIN jobs
            /\ registry' = registry ]_vars

(* C15: saving the edit of a job that has no row, with texts that are      *)
(* valid, changes neither the job table nor the registry and ends with a   *)
(* not-found error.                                                        *)
C15_AbsentIdIsError ==
    [][ \A j \in 1..MaxJobs, p \in EditPaths, tt \in ValidTimeTexts, f \in EditFreqChoices :
          \A clk \in ClockReads(tt) :
            (j \notin DOMAIN jobs /\ IsInt(f[2]) /\ save_changes(j, p, tt, f[1], f[2], clk))
                => /\ jobs' = jobs
                   /\ registry' = registry
                   /\ lastOp'.result = "NotFoundError" ]_vars

(* C16: a create or an update with "custom" and an interval of 0 days ends *)
(* with a validation error and adds no trigger to the registry.            *)
C16_NonPositiveCustomRejected ==
    [][ \A j \in 1..MaxJobs, tt \in ValidTimeTexts : \A clk \in ClockReads(tt) :
          Registers(j, tt, <<"custom">>, Num(0), clk) =>
              /\ DOMAIN registry' \subseteq DOMAIN registry
              /\ lastOp'.result \in { "Invalid custom interval.", "ValueError" } ]_vars

(* C17: the id a create gives to its row is at or above nextId, nextId     *)
(* moves above it, and nextId never goes down (not on a delete, not on a   *)
(* restart): so the id differs from every id given before.                 *)
C17_IdsNeverReused ==
    [][ /\ nextId' >= nextId
        /\ \A id \in DOMAIN jobs' \ DOMAIN jobs : id >= nextId /\ nextId' > id ]_vars

(* C17 witness: three jobs were created, the second was removed while it   *)
(* had the highest id, and the create that followed has just ended.        *)
C17_Witness ==
    /\ DOMAIN jobs = {1, 3}
    /\ nextId = 4
    /\ lastOp = Op("schedule_script", 3, "Script Scheduled!")

(* C18: "Run Now" submits exactly one run, of the script chosen, and       *)
(* leaves the job table, the id counter and the registry as they were.     *)
C18_RunNowOnlySubmits ==
    [][ \A n \in ScriptNames :
          run_script_manually(n) =>
              /\ jobs' = jobs /\ nextId' = nextId /\ registry' = registry
              /\ executor'.submitted = executor.submitted + 1
              /\ executor'.running = executor.running
              /\ executor'.queue =
                    Append(executor.queue,
                           WorkItem(executor'.submitted, SCRIPT_DIRECTORY \o <<n>>, Manual)) ]_vars

(* C18 witness: "Run Now" has just been used while a job is stored and its *)
(* trigger is registered.                                                  *)
C18_Witness ==
    /\ lastOp.op = "run_script_manually"
    /\ LiveTriggers # {}
    /\ Len(executor.queue) >= 1

(* C19: saving the edit of a stored job leaves its active flag as it was,  *)
(* and a paused job has no trigger afterwards.                             *)
C19_EditKeepsActive ==
    [][ \A j \in DOMAIN jobs, p \in EditPaths, tt \in TimeTexts, f \in EditFreqChoices :
          \A clk \in ClockReads(tt) :
            save_changes(j, p, tt, f[1], f[2], clk) =>
                /\ jobs'[j].active = jobs[j].active
                /\ jobs[j].active = 0 => TriggersOf(registry', j) = {} ]_vars

(* C20: every trigger of the registry is the one named by the scheduler_id *)
(* of a stored job.                                                        *)
C20_NoOrphanTriggers ==
    \A x \in DOMAIN registry :
        /\ JobOf(x) \in DOMAIN jobs
        /\ jobs[JobOf(x)].scheduler_id = x

(* C21: a create, an update or a toggle that ends with an exception leaves *)
(* no trigger whose id no row stores and no active row whose scheduler_id  *)
(* is unset or names no trigger.                                           *)
C21_FailsAtomically ==
    [][ (/\ lastOp'.op \in { "schedule_script", "save_changes", "toggle_job_ui" }
         /\ lastOp'.result \in { "ValueError", "TypeError", "ConflictingIdError" })
        => /\ \A x \in DOMAIN registry' \ DOMAIN registry :
                 JobOf(x) \in DOMAIN jobs' /\ jobs'[JobOf(x)].scheduler_id = x
           /\ \A j \in DOMAIN jobs' :
                 (jobs'[j].active = 1 /\ (j \notin DOMAIN jobs \/ jobs'[j] # jobs[j]))
                     => /\ jobs'[j].scheduler_id # NoId
                        /\ jobs'[j].scheduler_id \in DOMAIN registry' ]_vars

(* C22: at most max_workers (4) work items, and so at most 4 script        *)
(* processes, are running at any time, however many runs the triggers and  *)
(* the "Run Now" button have submitted.                                    *)
C22_PoolBound ==
    /\ Cardinality(executor.running) <= max_workers
    /\ max_workers = 4

(* C22 witness: every worker is busy, with runs from a trigger and from    *)
(* "Run Now" among them, and runs of both sources wait.                    *)
C22_Witness ==
    /\ Cardinality(executor.running) = max_workers
    /\ \E a, b \in executor.running : a.src = Manual /\ b.src # Manual
    /\ \E i, k \in 1..Len(executor.queue) :
          executor.queue[i].src = Manual /\ executor.queue[k].src # Manual

(* The row of job j names a trigger that the registry does not hold *)
CancelMisses(j) ==
    /\ jobs[j].scheduler_id # NoId
    /\ jobs[j].scheduler_id \notin DOMAIN registry

(* C23: when the stored scheduler_id of a job names no trigger of the      *)
(* registry, the cancel inside a remove, a deactivation or an update (with *)
(* valid texts) raises nothing and changes no trigger: the remove deletes  *)
(* the row, the deactivation stores active = 0, the update registers the   *)
(* new trigger, and each ends with its status message.                     *)
C23_CancelAbsentIsNoop ==
    [][ /\ lastOp'.op = "remove_job_ui" =>
              \A j \in DOMAIN jobs :
                  (CancelMisses(j) /\ remove_job_ui(j)) =>
                      /\ lastOp'.result = "Removed job"
                      /\ j \notin DOMAIN jobs'
                      /\ registry' = registry
        /\ lastOp'.op = "toggle_job_ui" =>
              \A j \in DOMAIN jobs :
                  (CancelMisses(j) /\ jobs[j].active = 1 /\ toggle_job_ui(j)) =>
                      /\ lastOp'.result = "Toggled job"
                      /\ jobs'[j].active = 0
                      /\ registry' = registry
        /\ lastOp'.op = "save_changes" =>
              \A j \in DOMAIN jobs :
                CancelMisses(j) =>
                  \A tt \in ValidTimeTexts :
                    (/\ jobs'[j].hour = IntOf(tt[1])
                     /\ jobs'[j].minute = IntOf(tt[2])
                     /\ jobs'[j].second = IntOf(tt[3])) =>
                      \A f \in EditFreqChoices :
                        (IsInt(f[2]) /\ jobs'[j].frequency = Frequency(f[1], f[2])) =>
                          \A p \in EditPaths, clk \in ClockReads(tt) :
                            save_changes(j, p, tt, f[1], f[2], clk) =>
                              /\ lastOp'.result = "Job updated."
                              /\ \A x \in DOMAIN registry :
                                    x \in DOMAIN registry' /\ registry'[x] = registry[x]
                              /\ jobs'[j].scheduler_id \in DOMAIN registry' ]_vars

(* C23 witness: a job whose last update failed after the cancel of its     *)
(* trigger (the row holds an out-of-range time, which no registered        *)
(* trigger can have) has just been deactivated.                            *)
C23_Witness ==
    \E j \in DOMAIN jobs :
        /\ ~ValidTime(jobs[j].hour, jobs[j].minute, jobs[j].second)
        /\ CancelMisses(j)
        /\ jobs[j].active = 0
        /\ lastOp = Op("toggle_job_ui", j, "Toggled job")

====
